---- MODULE Spec2Model ----
(***************************************************************************)
(* Model of the clashai Client (src/unnamed/part_006, compiled to          *)
(* src/lib/index.js): the per-user conversation-history store, the         *)
(* makeRequest dispatcher and the 'error' / 'requestMade' notifications    *)
(* raised through the EventEmitter the Client extends.                     *)
(*                                                                         *)
(* makeRequest is an async function.  Everything up to the await of        *)
(* axios.post runs synchronously in the caller's step (MakeRequest); the   *)
(* rest of the body runs in one step when the outbound call settles        *)
(* (PostResolves / PostRejects).  Several calls may be awaiting at once.   *)
(***************************************************************************)
EXTENDS Integers, Sequences, FiniteSets, TLC

\* ------------------------------------------------------------------ bounds
MaxCalls == 2        \* makeRequest calls made on the client
MaxInput == 2        \* messages supplied to one call
MaxListeners == 1    \* listeners registered per signal
MaxChoices == 2      \* choices in one response body

\* ------------------------------------------------------------- value sets
\* Messages the caller supplies (role, content).
InputMessages ==
    { [role |-> "user", content |-> "hi"],
      [role |-> "system", content |-> "be brief"] }

RECURSIVE SeqsUpTo(_, _)
\* The sequences of at most n elements of S.
SeqsUpTo(S, n) ==
    IF n = 0 THEN { <<>> }
    ELSE LET shorter == SeqsUpTo(S, n - 1)
         IN  shorter \cup
             { Append(s, x) : s \in { t \in shorter : Len(t) = n - 1 }, x \in S }

\* The message arrays a caller passes to one call: up to MaxInput messages,
\* no message twice in one array.
MessageLists ==
    { s \in SeqsUpTo(InputMessages, MaxInput) :
        \A i, j \in 1..Len(s) : i # j => s[i] # s[j] }

\* user_id arguments a caller can write down without having seen a generated
\* identifier: a name, the empty string, and the omitted argument.
Undefined == "<undefined>"
UserIds == { "u1" }

\* Response bodies of the remote service: k choices, the i-th with the reply
\* text "r<i>"; k = 0 is a body without a first choice.
Content(i) == "r" \o ToString(i)
ResponseBodies ==
    { [id |-> "chatcmpl", choices |-> [i \in 1..k |-> Content(i)]] : k \in 0..MaxChoices }

\* Errors with which axios.post rejects (no connection, non-2xx status).
AxiosErrors == { "NetworkError", "StatusError" }
\* Error raised by reading choices[0].message of a body without a first choice.
TypeError == "TypeError"
\* Error thrown by a listener that throws.
ListenerError == "ListenerError"

\* Listener functions; "boom" is a listener whose body throws.
Fns == { "log", "boom" }
Signals == { "error", "requestMade" }

Models == { "gpt-4o", "gpt-4" }

\* ------------------------------------------------------------------ state
VARIABLES
    model,            \* #model
    user_histories,   \* #user_histories: user_id -> sequence of messages
    listeners,        \* EventEmitter registry: signal -> sequence of listeners
    uuids,            \* number of identifiers crypto.randomUUID has produced
    calls,            \* the makeRequest calls made so far, in call order
    api_key,          \* #api_key
    built,            \* outcome of the constructor: "none" before it has run,
                      \* "ok", or the message of the error it threw
    given,            \* the arguments the constructor was called with
    requests,         \* the outbound HTTP requests issued so far, in order
    usage,            \* the getUsage calls made so far, in call order
    hasRun,           \* Utils.once: hasRun of the wrapper's closure
    result,           \* Utils.once: result of the wrapper's closure
    onceLog,          \* the calls of the once wrapper so far, in call order
    inThrottle,       \* Utils.throttle: inThrottle of the wrapper's closure
    now,              \* the clock, in milliseconds
    timers,           \* due times of the pending setTimeout callbacks
    throttleLog,      \* the calls of the throttle wrapper so far, in call order
    timeoutId,        \* Utils.debounce: timeoutId of the wrapper's closure
    debounceTimers,   \* the pending setTimeout callbacks of the debounce wrapper
    debounceLog,      \* calls of the debounce wrapper and executions of func
    applied           \* the latest application of an array function of Utils

\* The closures of the Utils wrappers.
onceVars == << hasRun, result, onceLog >>
throttleVars == << inThrottle, now, timers, throttleLog >>
debounceVars == << timeoutId, debounceTimers, debounceLog >>
utils == << onceVars, throttleVars, debounceVars, applied >>

\* The variables no step of makeRequest, on or once touches.
outside == << api_key, built, given, usage, utils >>

\* The fields of the client and what is recorded for it.
client == << model, user_histories, listeners, uuids, calls, requests,
            api_key, built, given, usage >>

vars == << model, user_histories, listeners, uuids, calls, requests, outside >>

\* ---------------------------------------------------------------- helpers
Falsy(v) == v = Undefined \/ v = ""

\* The n-th identifier produced by crypto.randomUUID: a value never produced
\* before and never equal to a name the caller invented.
randomUUID(n) == "uuid-" \o ToString(n)

\* --------------------------------------------------------- EventEmitter
\* A listener's body throws.
Throws(fn) == fn = "boom"

\* EventEmitter.on / once: add a listener at the end of the signal's list.
\* A listener is recorded with its function, whether it is a one-time
\* listener, and whether it was registered by one of the prepend methods.
addListener(reg, name, fn, once) ==
    [reg EXCEPT ![name] = Append(@, [fn |-> fn, once |-> once, prepended |-> FALSE])]

\* Position of the first listener of ls that throws, 0 if none does.
FirstThrower(ls) ==
    IF \E i \in 1..Len(ls) : Throws(ls[i].fn)
    THEN CHOOSE i \in 1..Len(ls) :
            Throws(ls[i].fn) /\ \A j \in 1..(i - 1) : ~Throws(ls[j].fn)
    ELSE 0

\* Number of listeners of ls that emit invokes: all of them, or those up to
\* and including the first that throws (its exception leaves emit).
Invoked(ls) == IF FirstThrower(ls) = 0 THEN Len(ls) ELSE FirstThrower(ls)

RECURSIVE DropOnce(_, _, _)
\* ls without the once-listeners among its first n: a once-listener is
\* removed just before it is invoked.
DropOnce(ls, i, n) ==
    IF i > Len(ls) THEN <<>>
    ELSE IF i <= n /\ ls[i].once THEN DropOnce(ls, i + 1, n)
    ELSE <<ls[i]>> \o DropOnce(ls, i + 1, n)

\* EventEmitter.emit(name, payload): the listeners of name are invoked
\* synchronously in registration order.  An 'error' emitted with no listener
\* is thrown; an exception of a listener propagates out of emit.
emit(reg, name, payload) ==
    LET ls == reg[name]
        n  == Invoked(ls)
    IN  IF ls = <<>>
        THEN [listeners |-> reg,
              threw     |-> name = "error",
              error     |-> IF name = "error" THEN payload ELSE "",
              invoked   |-> <<>>]
        ELSE [listeners |-> [reg EXCEPT ![name] = DropOnce(ls, 1, n)],
              threw     |-> FirstThrower(ls) # 0,
              error     |-> IF FirstThrower(ls) # 0 THEN ListenerError ELSE "",
              invoked   |-> [i \in 1..n |-> ls[i].fn]]

\* ----------------------------------------------------------------- Utils
MaxWrapperCalls == 4    \* calls of the once wrapper in a behaviour
MaxThrottleCalls == 3   \* calls of the throttle wrapper in a behaviour
MaxTime == 4            \* the clock stops here
Limit == 2              \* the limit argument of throttle, in milliseconds

\* The arguments a wrapper is called with, and what func does with them: it
\* returns some value, or it throws.
WrapperArgs == { "a", "b" }
FuncValues == { "v1", "v2" }
FuncError == "FuncError"
Outcomes ==
    { [threw |-> FALSE, value |-> v] : v \in FuncValues }
    \cup { [threw |-> TRUE, value |-> FuncError] }

\* once(func) has returned its wrapper: let hasRun = false; let result;
OnceIdle ==
    /\ hasRun = FALSE
    /\ result = Undefined
    /\ onceLog = <<>>

\* throttle(func, limit) has returned its wrapper: let inThrottle; (undefined,
\* which the wrapper's test reads as false).
ThrottleIdle ==
    /\ inThrottle = FALSE
    /\ now = 0
    /\ timers = {}
    /\ throttleLog = <<>>

\* A call wrapper(args) of the wrapper of once(func), where func, if it is
\* executed, has the outcome out:
\*   if (!hasRun) { result = func(...args); hasRun = true; } return result;
\* When func throws, the exception leaves the wrapper before hasRun is set.
OnceCall(args, out) ==
    /\ Len(onceLog) < MaxWrapperCalls
    /\ IF ~hasRun
       THEN IF out.threw
            THEN /\ onceLog' = Append(onceLog,
                       [args |-> args, executed |-> TRUE,
                        returned |-> <<>>, thrown |-> << out.value >>])
                 /\ UNCHANGED << hasRun, result >>
            ELSE /\ result' = out.value
                 /\ hasRun' = TRUE
                 /\ onceLog' = Append(onceLog,
                       [args |-> args, executed |-> TRUE,
                        returned |-> << out.value >>, thrown |-> <<>>])
       ELSE /\ onceLog' = Append(onceLog,
                  [args |-> args, executed |-> FALSE,
                   returned |-> << result >>, thrown |-> <<>>])
            /\ UNCHANGED << hasRun, result >>
    /\ UNCHANGED << client, throttleVars, debounceVars, applied >>

\* A call wrapper(args) of the wrapper of throttle(func, limit) at time now,
\* where func, if it is executed, has the outcome out:
\*   if (!inThrottle) { func(...args); inThrottle = true;
\*                      setTimeout(() => (inThrottle = false), limit); }
\* When func throws, the exception leaves the wrapper before inThrottle is
\* set and before the timer is started.
ThrottleCall(args, out) ==
    /\ Len(throttleLog) < MaxThrottleCalls
    /\ throttleLog' = Append(throttleLog,
          [args |-> args, at |-> now, executed |-> ~inThrottle,
           threw |-> ~inThrottle /\ out.threw])
    /\ IF ~inThrottle /\ ~out.threw
       THEN /\ inThrottle' = TRUE
            /\ timers' = timers \cup { now + Limit }
       ELSE UNCHANGED << inThrottle, timers >>
    /\ UNCHANGED << client, onceVars, now, debounceVars, applied >>

\* The callback of a timer that is due runs: () => (inThrottle = false).  The
\* event loop runs it at its due time or later, never earlier.
TimerFires(t) ==
    /\ t \in timers
    /\ t <= now
    /\ inThrottle' = FALSE
    /\ timers' = timers \ { t }
    /\ UNCHANGED << client, onceVars, now, throttleLog, debounceVars, applied >>

\* A millisecond passes.
Tick ==
    /\ now < MaxTime
    /\ now' = now + 1
    /\ UNCHANGED << client, onceVars, inThrottle, timers, throttleLog,
                    debounceVars, applied >>

\* No array function of Utils has been applied yet.
ArraysIdle == applied = [fn |-> "none"]

MaxDebounceCalls == 3   \* calls of the debounce wrapper in a behaviour
Delay == 2              \* the delay argument of debounce, in milliseconds

\* debounce(func, delay) has returned its wrapper: let timeoutId; (undefined,
\* here 0; the identifiers setTimeout returns count from 1 and are truthy).
DebounceIdle ==
    /\ timeoutId = 0
    /\ debounceTimers = {}
    /\ debounceLog = <<>>

\* The number of calls of the debounce wrapper so far.
DebounceCalls ==
    Cardinality({ p \in 1..Len(debounceLog) : debounceLog[p].kind = "call" })

\* Mutant of clearTimeout: the timer is left pending.
clearTimeout_Ignored(ts, id) == ts

\* clearTimeout(id): the timer with this identifier, if it is still pending,
\* is cancelled.
clearTimeout(ts, id) == { t \in ts : t.id # id }

\* A call wrapper(args) of the wrapper of debounce(func, delay) at time now:
\*   if (timeoutId) clearTimeout(timeoutId);
\*   timeoutId = setTimeout(() => { func(...args); }, delay);
DebounceCall(args) ==
    /\ DebounceCalls < MaxDebounceCalls
    /\ LET id      == DebounceCalls + 1
           pending == IF timeoutId # 0
                      THEN clearTimeout(debounceTimers, timeoutId)
                      ELSE debounceTimers
       IN  /\ debounceTimers' =
                  pending \cup { [id |-> id, due |-> now + Delay, args |-> args] }
           /\ timeoutId' = id
    /\ debounceLog' = Append(debounceLog, [kind |-> "call", at |-> now, args |-> args])
    /\ UNCHANGED << client, onceVars, throttleVars, applied >>

\* The callback of a debounce timer that is due runs: () => { func(...args); }
\* with the args of the call that started it.  The event loop runs it at its
\* due time or later, never earlier.
DebounceFires(t) ==
    /\ t \in debounceTimers
    /\ t.due <= now
    /\ debounceTimers' = debounceTimers \ { t }
    /\ debounceLog' = Append(debounceLog, [kind |-> "exec", at |-> now, args |-> t.args])
    /\ UNCHANGED << client, onceVars, throttleVars, timeoutId, applied >>

DebounceNext ==
    \/ \E args \in WrapperArgs : DebounceCall(args)
    \/ \E t \in debounceTimers : DebounceFires(t)
    \/ Tick

OnceNext == \E args \in WrapperArgs, out \in Outcomes : OnceCall(args, out)

ThrottleNext ==
    \/ \E args \in WrapperArgs, out \in Outcomes : ThrottleCall(args, out)
    \/ \E t \in timers : TimerFires(t)
    \/ Tick

\* ------------------------------------------------- Utils: array functions
MaxArray == 3   \* longest array handed to an array function
MaxElem == 3    \* array elements are the numbers 1..MaxElem
MaxChunk == 4   \* largest chunk size

Elems == 1..MaxElem
Arrays == SeqsUpTo(Elems, MaxArray)

Min(a, b) == IF a <= b THEN a ELSE b

\* Mutant of slice: the end position is included.
slice_Inclusive(arr, from, to) == SubSeq(arr, from + 1, Min(to + 1, Len(arr)))

\* arr.slice(from, to): the elements at the 0-based positions from..to-1 that
\* exist.
slice(arr, from, to) == SubSeq(arr, from + 1, Min(to, Len(arr)))

\* The loop of chunk from position i on:
\*   for (let i = 0; i < arr.length; i += size) result.push(arr.slice(i, i + size));
RECURSIVE chunkFrom(_, _, _)
chunkFrom(arr, size, i) ==
    IF i < Len(arr)
    THEN << slice(arr, i, i + size) >> \o chunkFrom(arr, size, i + size)
    ELSE <<>>

chunk(arr, size) == chunkFrom(arr, size, 0)

\* arr.reduce((acc, val) => acc.concat(val), [])
RECURSIVE flatten(_)
flatten(arrs) ==
    IF arrs = <<>> THEN <<>>
    ELSE flatten(SubSeq(arrs, 1, Len(arrs) - 1)) \o arrs[Len(arrs)]

\* chunk(arr, size), and flatten applied to what it returns.
Chunk(arr, size) ==
    /\ applied' = [fn |-> "chunk", arr |-> arr, size |-> size,
                   out |-> chunk(arr, size), flat |-> flatten(chunk(arr, size))]
    /\ UNCHANGED << client, onceVars, throttleVars, debounceVars >>

\* arr.map((val, index) => [index, val]), with 0-based indices.
indexedArray(arr) == [k \in 1..Len(arr) |-> [index |-> k - 1, value |-> arr[k]]]

\* The comparator of ipairs: (a, b) => (a[1] > b[1] ? 1 : -1)
compare(a, b) == IF a.value > b.value THEN 1 ELSE -1

\* The arrangements Array.prototype.sort may leave the pairs in: no pair
\* stands directly before one that the comparator puts before it.  The
\* comparator never answers 0, so the order of pairs with equal values is
\* whatever the engine's algorithm makes of it.
Sorted(pairs) ==
    { [k \in 1..Len(pairs) |-> pairs[p[k]]] :
        p \in { q \in [1..Len(pairs) -> 1..Len(pairs)] :
                  /\ \A i, j \in 1..Len(pairs) : i # j => q[i] # q[j]
                  /\ \A i \in 1..Len(pairs) - 1 :
                        compare(pairs[q[i]], pairs[q[i + 1]]) = -1 } }

\* ipairs(arr), drained: the pairs it yields, in order.
Ipairs(arr) ==
    /\ \E sorted \in Sorted(indexedArray(arr)) :
          applied' = [fn |-> "ipairs", arr |-> arr, out |-> sorted]
    /\ UNCHANGED << client, onceVars, throttleVars, debounceVars >>

\* The keys keyFn may return, one of them the name of a property every plain
\* object inherits from Object.prototype; and the key functions.
Keys == { "k1", "k2", "constructor" }
ObjectPrototype == { "constructor" }
KeyFns == [Elems -> Keys]

\* The reducer of groupBy applied from position i on to the object acc (its
\* own properties):
\*   const key = keyFn(item); if (!acc[key]) acc[key] = []; acc[key].push(item);
\* acc[key] of a key that is no own property is read from Object.prototype:
\* for an inherited name it is a function, which is truthy and has no push,
\* and the call of push throws a TypeError.
RECURSIVE groupByFrom(_, _, _, _)
groupByFrom(acc, arr, keyFn, i) ==
    IF i > Len(arr) THEN [threw |-> FALSE, groups |-> acc]
    ELSE LET key == keyFn[arr[i]]
         IN  IF key \in DOMAIN acc
             THEN groupByFrom([acc EXCEPT ![key] = Append(@, arr[i])], arr, keyFn, i + 1)
             ELSE IF key \in ObjectPrototype
             THEN [threw |-> TRUE, groups |-> acc]
             ELSE groupByFrom([k \in DOMAIN acc \cup { key } |->
                                  IF k = key THEN << arr[i] >> ELSE acc[k]],
                              arr, keyFn, i + 1)

\* groupBy(arr, keyFn): arr.reduce(reducer, {})
groupBy(arr, keyFn) == groupByFrom(<< >>, arr, keyFn, 1)

GroupBy(arr, keyFn) ==
    /\ applied' = [fn |-> "groupBy", arr |-> arr, keyFn |-> keyFn,
                   out |-> groupBy(arr, keyFn)]
    /\ UNCHANGED << client, onceVars, throttleVars, debounceVars >>

\* One application of an array function to some input; the functions keep
\* nothing between applications.
ArraysNext ==
    \/ ArraysIdle /\ \E arr \in Arrays, size \in 1..MaxChunk : Chunk(arr, size)
    \/ ArraysIdle /\ \E arr \in Arrays : Ipairs(arr)
    \/ ArraysIdle /\ \E arr \in Arrays, keyFn \in KeyFns : GroupBy(arr, keyFn)

\* ---------------------------------------------------------------- Client
\* Mutant of get_user_history: the store holds the looked-up user only.
get_user_history_Alone(h, user_id) ==
    [u \in { user_id } |-> IF u \in DOMAIN h THEN h[u] ELSE <<>>]

\* Mutant of get_user_history: the entry is replaced at every lookup.
get_user_history_Reset(h, user_id) ==
    [u \in DOMAIN h \cup { user_id } |-> IF u = user_id THEN <<>> ELSE h[u]]

\* #get_user_history(user_id): the store after the lookup.  The array the
\* lookup returns is the store's own entry, user_histories[user_id].
get_user_history(h, user_id) ==
    IF user_id \notin DOMAIN h
    THEN [u \in DOMAIN h \cup { user_id } |-> IF u = user_id THEN <<>> ELSE h[u]]
    ELSE h

\* Mutant of ResolveUserId: user_id ?? crypto.randomUUID(), which keeps "".
ResolveUserId_NullishOnly(user_id, n) ==
    IF user_id = Undefined THEN randomUUID(n + 1) ELSE user_id

\* Mutant of ResolveUserId: one shared identifier for calls without user_id.
ResolveUserId_Shared(user_id, n) ==
    IF Falsy(user_id) THEN "anonymous" ELSE user_id

\* if (!user_id) user_id = crypto.randomUUID();
ResolveUserId(user_id, n) ==
    IF Falsy(user_id) THEN randomUUID(n + 1) ELSE user_id

\* Mutant of PushMessages: push(messages[0]) in place of push(...messages).
PushMessages_First(history, messages) ==
    IF messages = <<>> THEN history ELSE Append(history, messages[1])

\* Mutant of PushMessages: unshift(...messages) in place of push(...messages).
PushMessages_Front(history, messages) == messages \o history

\* user_history.push(...messages)
PushMessages(history, messages) == history \o messages

\* Mutant of RequestBody: only the latest message is sent as context.
RequestBody_LastOnly(m, history) ==
    [model |-> m,
     messages |-> IF history = <<>> THEN <<>> ELSE << history[Len(history)] >>]

\* The body of the POST to /v1/chat/completions.
RequestBody(m, history) == [model |-> m, messages |-> history]

\* { role: "assistant", content: response.data.choices[0].message.content }
AssistantMessage(body) == [role |-> "assistant", content |-> body.choices[1]]

\* Mutant of RequestMadeInfo: the payload is built before the reply is stored.
RequestMadeInfo_BeforeReply(user_id, history) ==
    [user_id |-> user_id, messages |-> SubSeq(history, 1, Len(history) - 1)]

\* The payload of 'requestMade'.
RequestMadeInfo(user_id, history) == [user_id |-> user_id, messages |-> history]

\* What makeRequest hands back once the reply is stored and announced.
ReturnValue(body) == <<body>>

\* A notification as it is recorded in the call that raised it.
Emitted(name, payload, e) == [name |-> name, payload |-> payload, invoked |-> e.invoked]

\* The catch clause of makeRequest: emit 'error', return null.  When emit
\* throws, the exception leaves the async function and its promise rejects.
Catch(c, reg, error) ==
    LET e == emit(reg, "error", error)
    IN  [call |-> [c EXCEPT !.state   = IF e.threw THEN "rejected" ELSE "null",
                            !.thrown  = IF e.threw THEN <<e.error>> ELSE <<>>,
                            !.emitted = Append(@, Emitted("error", error, e))],
         listeners |-> e.listeners]

\* Mutant of StoreAndAnnounce: the reply is put directly behind the call's own
\* input, wherever in the history that is by now.
StoreAndAnnounce_InCallOrder(c, reg, history, body) ==
    LET at == Len(c.prior) + Len(c.messages)
        h2 == SubSeq(history, 1, at) \o << AssistantMessage(body) >>
              \o SubSeq(history, at + 1, Len(history))
        e  == emit(reg, "requestMade", RequestMadeInfo(c.user_id, h2))
        c2 == [c EXCEPT !.emitted =
                   Append(@, Emitted("requestMade", RequestMadeInfo(c.user_id, h2), e))]
    IN  IF e.threw
        THEN [history |-> h2] @@ Catch(c2, e.listeners, e.error)
        ELSE [history   |-> h2,
              call      |-> [c2 EXCEPT !.state = "returned",
                                       !.value = ReturnValue(body)],
              listeners |-> e.listeners]

\* The try block of makeRequest from the reply on, for a body that has a
\* first choice: store the reply, emit 'requestMade', return the body.  An
\* exception of a 'requestMade' listener is caught by the catch clause.
StoreAndAnnounce(c, reg, history, body) ==
    LET h2 == Append(history, AssistantMessage(body))
        e  == emit(reg, "requestMade", RequestMadeInfo(c.user_id, h2))
        c2 == [c EXCEPT !.emitted =
                   Append(@, Emitted("requestMade", RequestMadeInfo(c.user_id, h2), e))]
    IN  IF e.threw
        THEN [history |-> h2] @@ Catch(c2, e.listeners, e.error)
        ELSE [history   |-> h2,
              call      |-> [c2 EXCEPT !.state = "returned",
                                       !.value = ReturnValue(body)],
              listeners |-> e.listeners]

\* Mutant of Try: the reply is stored into the copy of the history the call
\* took before the await, and that copy is written back.
Try_StaleCopy(c, reg, history, body) ==
    IF body.choices = <<>>
    THEN [history |-> history] @@ Catch(c, reg, TypeError)
    ELSE StoreAndAnnounce(c, reg, c.prior \o c.messages, body)

\* Mutant of Try: a failed call takes its input messages off the history.
Try_RollBack(c, reg, history, body) ==
    IF body.choices = <<>>
    THEN [history |-> SubSeq(history, 1, Len(history) - Len(c.messages))]
         @@ Catch(c, reg, TypeError)
    ELSE StoreAndAnnounce(c, reg, history, body)

\* Mutant of Try: choices[0]?.message?.content, so that a body without a
\* first choice stores an assistant message before the failure is noticed.
Try_OptionalChaining(c, reg, history, body) ==
    IF body.choices = <<>>
    THEN [history |-> Append(history, [role |-> "assistant", content |-> ""])]
         @@ Catch(c, reg, TypeError)
    ELSE StoreAndAnnounce(c, reg, history, body)

\* The try block of makeRequest after axios.post has resolved with body, run
\* against the current history of the call's user.  Reading
\* choices[0].message of a body without a first choice throws a TypeError.
Try(c, reg, history, body) ==
    IF body.choices = <<>>
    THEN [history |-> history] @@ Catch(c, reg, TypeError)
    ELSE StoreAndAnnounce(c, reg, history, body)

\* An outbound request as the network sees it: the POST of makeRequest call i.
PostRequest(i) == [method |-> "POST", path |-> "/v1/chat/completions", call |-> i]

\* Calls of user_id whose outbound call has not settled yet.
Awaiting(user_id) ==
    { i \in 1..Len(calls) : calls[i].user_id = user_id /\ calls[i].state = "awaiting" }

\* The client after new Client(api_key, model) has returned.
Init ==
    /\ model \in Models
    /\ user_histories = << >>
    /\ listeners = [name \in Signals |-> <<>>]
    /\ uuids = 0
    /\ calls = <<>>
    /\ api_key = "sk-key"
    /\ built = "ok"
    /\ given = [api_key |-> api_key, model |-> model]
    /\ requests = <<>>
    /\ usage = <<>>
    /\ OnceIdle
    /\ ThrottleIdle
    /\ DebounceIdle
    /\ ArraysIdle

\* client.on(name, fn).  Listeners are registered when the client is set up,
\* before its first request.
On(name, fn) ==
    /\ calls = <<>>
    /\ Len(listeners[name]) < MaxListeners
    /\ listeners' = addListener(listeners, name, fn, FALSE)
    /\ UNCHANGED << model, user_histories, uuids, calls, requests, outside >>

\* client.once(name, fn)
Once(name, fn) ==
    /\ calls = <<>>
    /\ Len(listeners[name]) < MaxListeners
    /\ listeners' = addListener(listeners, name, fn, TRUE)
    /\ UNCHANGED << model, user_histories, uuids, calls, requests, outside >>

\* makeRequest(messages, user_id) up to the await: resolve the identifier,
\* look the history up, append the input, issue the POST.  The call is
\* recorded with what it was given (arg, messages), what it found (created:
\* the lookup inserted the entry; prior: the history before the append;
\* overlap: another call of the same user was awaiting) and what it sent.
MakeRequest(messages, user_id) ==
    LET uid   == ResolveUserId(user_id, uuids)
        h1    == get_user_history(user_histories, uid)
        after == PushMessages(h1[uid], messages)
    IN  /\ Len(calls) < MaxCalls
        /\ uuids' = IF Falsy(user_id) THEN uuids + 1 ELSE uuids
        /\ user_histories' = [h1 EXCEPT ![uid] = after]
        /\ calls' = Append(calls,
              [arg      |-> user_id,
               user_id  |-> uid,
               messages |-> messages,
               created  |-> uid \notin DOMAIN user_histories,
               prior    |-> IF uid \in DOMAIN user_histories
                            THEN user_histories[uid] ELSE <<>>,
               overlap  |-> Awaiting(uid) # {},
               sent     |-> RequestBody(model, after),
               state    |-> "awaiting",
               settled  |-> "",
               response |-> <<>>,
               emitted  |-> <<>>,
               value    |-> <<>>,
               thrown   |-> <<>>])
        /\ requests' = Append(requests, PostRequest(Len(calls) + 1))
        /\ UNCHANGED << model, listeners, outside >>

\* axios.post resolves for call i with a response body.
PostResolves(i, body) ==
    /\ calls[i].state = "awaiting"
    /\ LET c == [calls[i] EXCEPT !.settled = "resolved", !.response = <<body>>]
           r == Try(c, listeners, user_histories[c.user_id], body)
       IN  /\ user_histories' = [user_histories EXCEPT ![c.user_id] = r.history]
           /\ calls' = [calls EXCEPT ![i] = r.call]
           /\ listeners' = r.listeners
    /\ UNCHANGED << model, uuids, requests, outside >>

\* Mutant of PostRejects: the POST is attempted once more before the call
\* gives up.
PostRejects_Retry(i, error) ==
    /\ calls[i].state = "awaiting"
    /\ LET c == [calls[i] EXCEPT !.settled = "rejected", !.response = <<error>>]
           r == Catch(c, listeners, error)
       IN  /\ calls' = [calls EXCEPT ![i] = r.call]
           /\ listeners' = r.listeners
    /\ requests' = Append(requests, PostRequest(i))
    /\ UNCHANGED << model, user_histories, uuids, outside >>

\* axios.post rejects for call i (no connection, non-2xx status).
PostRejects(i, error) ==
    /\ calls[i].state = "awaiting"
    /\ LET c == [calls[i] EXCEPT !.settled = "rejected", !.response = <<error>>]
           r == Catch(c, listeners, error)
       IN  /\ calls' = [calls EXCEPT ![i] = r.call]
           /\ listeners' = r.listeners
    /\ UNCHANGED << model, user_histories, uuids, requests, outside >>

Next ==
    \/ \E name \in Signals, fn \in Fns : On(name, fn)
    \/ \E name \in Signals, fn \in Fns : Once(name, fn)
    \/ \E messages \in MessageLists,
          user_id \in UserIds \cup { "", Undefined } \cup DOMAIN user_histories :
            MakeRequest(messages, user_id)
    \/ \E i \in 1..Len(calls), body \in ResponseBodies : PostResolves(i, body)
    \/ \E i \in 1..Len(calls), error \in AxiosErrors : PostRejects(i, error)

Spec == Init /\ [][Next]_vars

\* ------------------------------------------------------ the whole client
\* The constructor, the listener methods the Client overrides or inherits,
\* makeRequest and getUsage together, on a client that makes at most MaxCalls
\* calls and holds at most MaxSubscribed listeners.
MaxSubscribed == 2   \* listeners registered on the client at one time
MaxCount == 1        \* largest request count in a statistics object

\* Arguments of new Client(api_key, model).
ApiKeyArgs == { "sk-key", "", Undefined }
ModelArgs == { "gpt-4o", "", Undefined }

\* The statistics objects of /my_stats (the value of the result field).
StatsObjects ==
    { [message |-> "ok", user_id |-> u,
       requests_all_time |-> n, requests_this_minute |-> 0] :
          u \in UserIds, n \in 0..MaxCount }

\* JSON.stringify of a statistics object, as the sequence of its tokens.
Stringify(R) ==
    << "{", R.message, R.user_id,
       ToString(R.requests_all_time), ToString(R.requests_this_minute), "}" >>

\* A token is the decimal text of a count.
IsNumber(t) == \E n \in 0..MaxCount : ToString(n) = t
NumberOf(t) == CHOOSE n \in 0..MaxCount : ToString(n) = t

\* JSON.parse accepts text: braces around a message, a user_id and two counts.
Parses(text) ==
    /\ Len(text) = 6
    /\ text[1] = "{" /\ text[6] = "}"
    /\ IsNumber(text[4]) /\ IsNumber(text[5])

\* JSON.parse(text) for a text it accepts.
Parse(text) ==
    [message |-> text[2], user_id |-> text[3],
     requests_all_time |-> NumberOf(text[4]),
     requests_this_minute |-> NumberOf(text[5])]

\* Error JSON.parse throws on a text it does not accept.
SyntaxError == "SyntaxError"

\* JavaScript values of the result field, with their typeof.
Obj(R) == [type |-> "object", value |-> R]
Str(text) == [type |-> "string", value |-> [text |-> text]]

\* Texts the service may send that are no JSON of a statistics object.
BrokenTexts == { << "{", "ok" >> }

\* Response bodies of GET /my_stats/:id: the result structured, the result
\* as JSON text, the result as text that is no JSON.
UsageBodies ==
    { [result |-> Obj(R)] : R \in StatsObjects }
    \cup { [result |-> Str(Stringify(R))] : R \in StatsObjects }
    \cup { [result |-> Str(t)] : t \in BrokenTexts }

\* The GET of getUsage call j, as the network sees it.
GetRequest(j, user_id) ==
    [method |-> "GET", path |-> "/my_stats/" \o user_id, call |-> j]

\* The try block of getUsage after axios.get has resolved with data:
\*   if (typeof response.data.result === "string")
\*       response.data = JSON.parse(response.data.result);
\*   return response.data;
UsageTry(c, reg, data) ==
    IF data.result.type = "string"
    THEN IF Parses(data.result.value.text)
         THEN [call |-> [c EXCEPT !.state = "returned",
                                  !.value = << Obj(Parse(data.result.value.text)) >>],
               listeners |-> reg]
         ELSE Catch(c, reg, SyntaxError)
    ELSE [call |-> [c EXCEPT !.state = "returned", !.value = << data >>],
          listeners |-> reg]

\* Mutant of prependListener: the listener is added at the end.
prependListener_AtEnd(reg, name, fn, once) ==
    [reg EXCEPT ![name] = Append(@, [fn |-> fn, once |-> once, prepended |-> TRUE])]

\* EventEmitter.prependListener / prependOnceListener: add a listener at the
\* beginning of the signal's list.
prependListener(reg, name, fn, once) ==
    [reg EXCEPT ![name] = << [fn |-> fn, once |-> once, prepended |-> TRUE] >> \o @]

\* Position of the listener removeListener(fn) removes from ls: the most
\* recently placed one with that function, 0 if there is none.
LastOf(ls, fn) ==
    IF \E i \in 1..Len(ls) : ls[i].fn = fn
    THEN CHOOSE i \in 1..Len(ls) :
            ls[i].fn = fn /\ \A j \in (i + 1)..Len(ls) : ls[j].fn # fn
    ELSE 0

\* EventEmitter.removeListener(name, fn)
removeListener(reg, name, fn) ==
    LET ls == reg[name]
        k  == LastOf(ls, fn)
    IN  IF k = 0 THEN reg
        ELSE [reg EXCEPT ![name] = SubSeq(ls, 1, k - 1) \o SubSeq(ls, k + 1, Len(ls))]

\* EventEmitter.listenerCount(name)
listenerCount(reg, name) == Len(reg[name])

\* The four methods that register a listener.
SubscribeOps == { "on", "once", "prependListener", "prependOnceListener" }

\* Before the constructor has run.
ClientInit ==
    /\ model = Undefined
    /\ api_key = Undefined
    /\ built = "none"
    /\ given = [api_key |-> Undefined, model |-> Undefined]
    /\ user_histories = << >>
    /\ listeners = [name \in Signals |-> <<>>]
    /\ uuids = 0
    /\ calls = <<>>
    /\ requests = <<>>
    /\ usage = <<>>
    /\ OnceIdle
    /\ ThrottleIdle
    /\ DebounceIdle
    /\ ArraysIdle

\* Mutant of ConstructorError: the model is checked before the API key.
ConstructorError_ModelFirst(k, m) ==
    IF Falsy(m) THEN "Model is required."
    ELSE IF Falsy(k) THEN "API key is required."
    ELSE ""

\* The message of the error the constructor throws for (k, m), "" if none:
\*   if (!api_key) throw ...; else if (!model) throw ...
ConstructorError(k, m) ==
    IF Falsy(k) THEN "API key is required."
    ELSE IF Falsy(m) THEN "Model is required."
    ELSE ""

\* new Client(k, m): the fields are initialised, then the arguments are
\* checked and stored.
New(k, m) ==
    /\ built = "none"
    /\ given' = [api_key |-> k, model |-> m]
    /\ user_histories' = << >>
    /\ IF ConstructorError(k, m) # ""
       THEN /\ built' = ConstructorError(k, m)
            /\ UNCHANGED << api_key, model >>
       ELSE /\ built' = "ok"
            /\ api_key' = k
            /\ model' = m
    /\ UNCHANGED << listeners, uuids, calls, requests, usage, utils >>

\* client.on / once / prependListener / prependOnceListener (name, fn).
\* Listeners are registered when the client is set up, before its first call.
Subscribe(op, name, fn) ==
    /\ calls = <<>> /\ usage = <<>>
    /\ Len(listeners["error"]) + Len(listeners["requestMade"]) < MaxSubscribed
    /\ listeners' =
          IF op \in { "on", "once" }
          THEN addListener(listeners, name, fn, op = "once")
          ELSE prependListener(listeners, name, fn, op = "prependOnceListener")
    /\ UNCHANGED << model, user_histories, uuids, calls, requests, outside >>

\* client.removeListener(name, fn) for a listener that is registered
Unsubscribe(name, fn) ==
    /\ LastOf(listeners[name], fn) # 0
    /\ listeners' = removeListener(listeners, name, fn)
    /\ UNCHANGED << model, user_histories, uuids, calls, requests, outside >>

\* getUsage(user_id) up to the await: issue the GET.
GetUsage(user_id) ==
    /\ usage' = Append(usage,
          [user_id  |-> user_id,
           state    |-> "awaiting",
           settled  |-> "",
           response |-> <<>>,
           emitted  |-> <<>>,
           value    |-> <<>>,
           thrown   |-> <<>>])
    /\ requests' = Append(requests, GetRequest(Len(usage) + 1, user_id))
    /\ UNCHANGED << model, user_histories, listeners, uuids, calls, api_key, built, given, utils >>

\* axios.get resolves for getUsage call j with a response body.
GetResolves(j, data) ==
    /\ usage[j].state = "awaiting"
    /\ LET c == [usage[j] EXCEPT !.settled = "resolved", !.response = << data >>]
           r == UsageTry(c, listeners, data)
       IN  /\ usage' = [usage EXCEPT ![j] = r.call]
           /\ listeners' = r.listeners
    /\ UNCHANGED << model, user_histories, uuids, calls, requests, api_key, built, given, utils >>

\* axios.get rejects for getUsage call j.
GetRejects(j, error) ==
    /\ usage[j].state = "awaiting"
    /\ LET c == [usage[j] EXCEPT !.settled = "rejected", !.response = << error >>]
           r == Catch(c, listeners, error)
       IN  /\ usage' = [usage EXCEPT ![j] = r.call]
           /\ listeners' = r.listeners
    /\ UNCHANGED << model, user_histories, uuids, calls, requests, api_key, built, given, utils >>

\* The client is constructed and may make another call.
Ready == built = "ok"
MayCall == Ready /\ Len(calls) + Len(usage) < MaxCalls

\* The message arrays passed to makeRequest here: at most one message.
ShortMessageLists == { s \in MessageLists : Len(s) <= 1 }

ClientNext ==
    \/ \E k \in ApiKeyArgs, m \in ModelArgs : New(k, m)
    \/ \E op \in SubscribeOps, name \in Signals, fn \in Fns :
          Ready /\ Subscribe(op, name, fn)
    \/ \E name \in Signals, fn \in Fns : Ready /\ Unsubscribe(name, fn)
    \/ \E messages \in ShortMessageLists,
          user_id \in UserIds \cup { Undefined } \cup DOMAIN user_histories :
            MayCall /\ MakeRequest(messages, user_id)
    \/ \E i \in 1..Len(calls), body \in ResponseBodies : PostResolves(i, body)
    \/ \E i \in 1..Len(calls), error \in AxiosErrors : PostRejects(i, error)
    \/ \E user_id \in UserIds \cup DOMAIN user_histories :
          MayCall /\ GetUsage(user_id)
    \/ \E j \in 1..Len(usage), data \in UsageBodies : GetResolves(j, data)
    \/ \E j \in 1..Len(usage), error \in AxiosErrors : GetRejects(j, error)

SpecClient == ClientInit /\ [][ClientNext]_vars

\* The wrappers of Utils, each called from its fresh state; no client is
\* involved.
SpecOnce == ClientInit /\ [][OnceNext]_vars
SpecThrottle == ClientInit /\ [][ThrottleNext]_vars
SpecDebounce == ClientInit /\ [][DebounceNext]_vars
SpecArrays == ClientInit /\ [][ArraysNext]_vars

\* ================================================================ claims
\* Vocabulary of the claims.  The outbound call of a call succeeded when
\* axios.post resolved with a body that has a first choice; it failed when
\* axios.post rejected or the body has no first choice.
Succeeded(c) == c.settled = "resolved" /\ c.response[1].choices # <<>>
Failed(c) ==
    \/ c.settled = "rejected"
    \/ c.settled = "resolved" /\ c.response[1].choices = <<>>
ErrorOf(c) == IF c.settled = "rejected" THEN c.response[1] ELSE TypeError

CallsOf(u) == { i \in 1..Len(calls) : calls[i].user_id = u }
\* No call of u started while another call of u was awaiting.
NonOverlapping(u) == \A i \in CallsOf(u) : ~calls[i].overlap
IsLastCallOf(i, u) == i \in CallsOf(u) /\ \A j \in CallsOf(u) : j <= i

\* The notifications of one signal a call has raised, as their payloads.
RECURSIVE PayloadsOf(_, _)
PayloadsOf(em, name) ==
    IF em = <<>> THEN <<>>
    ELSE (IF Head(em).name = name THEN << Head(em).payload >> ELSE <<>>)
         \o PayloadsOf(Tail(em), name)

\* What the first n calls contribute to the history of u, call after call:
\* the input, then the reply of the first choice if the call succeeded.
RECURSIVE Expected(_, _)
Expected(u, n) ==
    IF n = 0 THEN <<>>
    ELSE Expected(u, n - 1) \o
         (IF calls[n].user_id # u THEN <<>>
          ELSE calls[n].messages \o
               (IF Succeeded(calls[n])
                THEN << [role |-> "assistant",
                         content |-> calls[n].response[1].choices[1]] >>
                ELSE <<>>))

RECURSIVE InputCount(_, _)
InputCount(u, n) ==
    IF n = 0 THEN 0
    ELSE InputCount(u, n - 1) + (IF calls[n].user_id = u THEN Len(calls[n].messages) ELSE 0)

SuccessCount(u) == Cardinality({ i \in CallsOf(u) : Succeeded(calls[i]) })

\* C1: for non-overlapping calls of one user_id, the stored history has as
\* many elements as the calls supplied messages, plus one per call whose
\* outbound call has succeeded.
C1_HistoryLength ==
    \A u \in DOMAIN user_histories :
        NonOverlapping(u) =>
            Len(user_histories[u]) = InputCount(u, Len(calls)) + SuccessCount(u)

\* Two calls of one user succeeded, one after the other, with input.
C1_Witness ==
    \E u \in DOMAIN user_histories :
        /\ NonOverlapping(u)
        /\ SuccessCount(u) = 2
        /\ InputCount(u, Len(calls)) >= 3

\* C2: for non-overlapping calls of one user_id, the stored history is the
\* concatenation in call order of each call's input followed by its
\* assistant reply exactly when its outbound call succeeded.
C2_HistoryIsConcatenation ==
    \A u \in DOMAIN user_histories :
        NonOverlapping(u) => user_histories[u] = Expected(u, Len(calls))

\* A succeeded call with a two-message input followed by a failed call with
\* input, on the same user.
C2_Witness ==
    \E u \in DOMAIN user_histories, i, j \in 1..Len(calls) :
        /\ NonOverlapping(u)
        /\ i < j /\ calls[i].user_id = u /\ calls[j].user_id = u
        /\ Succeeded(calls[i]) /\ Len(calls[i].messages) = 2
        /\ Failed(calls[j]) /\ calls[j].messages # <<>>

\* C3: when the outbound call of a call fails, the history of its user is
\* what it was before the call followed by the call's input, and no
\* assistant message: the input is not rolled back.
C3_FailureKeepsInput ==
    \A i \in 1..Len(calls) :
        LET c == calls[i]
        IN  (Failed(c) /\ ~c.overlap /\ IsLastCallOf(i, c.user_id)) =>
                user_histories[c.user_id] = c.prior \o c.messages

\* A call with input failed on a body without a first choice, on a user with
\* earlier history.
C3_Witness ==
    \E i \in 1..Len(calls) :
        LET c == calls[i]
        IN  /\ c.settled = "resolved" /\ Failed(c)
            /\ ~c.overlap /\ IsLastCallOf(i, c.user_id)
            /\ c.prior # <<>> /\ c.messages # <<>>

\* C4 (as claimed): every call whose outbound call failed resolves to null,
\* whatever listeners are registered.
C4_FailureResolvesNull ==
    \A i \in 1..Len(calls) :
        (Failed(calls[i]) /\ calls[i].state # "awaiting") => calls[i].state = "null"

\* C5 (as claimed): a call whose outbound call failed has raised 'error'
\* exactly once, with that error; a call whose outbound call succeeded has
\* raised no 'error'.
C5_ErrorOncePerFailure ==
    \A i \in 1..Len(calls) :
        LET c == calls[i]
        IN  /\ Failed(c) => PayloadsOf(c.emitted, "error") = << ErrorOf(c) >>
            /\ Succeeded(c) => PayloadsOf(c.emitted, "error") = <<>>

C7_FirstSuccess ==
    \A i \in 1..Len(calls) :
        LET c == calls[i]
        IN  (Succeeded(c) /\ c.created /\ CallsOf(c.user_id) = { i }) =>
                /\ user_histories[c.user_id] =
                      c.messages \o << [role |-> "assistant",
                                        content |-> c.response[1].choices[1]] >>
                /\ c.value = c.response

\* C8: the POST of a call carries the model given at construction and the
\* user's whole history with the call's input appended; for non-overlapping
\* calls that is everything earlier calls contributed, then the input.
C8_RequestCarriesHistory ==
    \A i \in 1..Len(calls) :
        LET c == calls[i]
        IN  /\ c.sent.model = model
            /\ c.sent.messages = c.prior \o c.messages
            /\ NonOverlapping(c.user_id) =>
                  c.sent.messages = Expected(c.user_id, i - 1) \o c.messages

\* A call whose POST carried an earlier input, an earlier reply and its own
\* input.
C8_Witness ==
    \E i \in 1..Len(calls) :
        /\ NonOverlapping(calls[i].user_id)
        /\ Len(calls[i].prior) >= 2
        /\ calls[i].messages # <<>>
        /\ Len(calls[i].sent.messages) >= 3

\* C9: two calls made without user_id are stored under different generated
\* identifiers, and each created its entry.
C9_FreshIdentifiers ==
    \A i, j \in 1..Len(calls) :
        (i # j /\ Falsy(calls[i].arg) /\ Falsy(calls[j].arg)) =>
            /\ calls[i].user_id # calls[j].user_id
            /\ calls[i].created /\ calls[j].created
            /\ ~Falsy(calls[i].user_id)

\* Two calls without user_id, both with input.
C9_Witness ==
    \E i, j \in 1..Len(calls) :
        /\ i # j /\ Falsy(calls[i].arg) /\ Falsy(calls[j].arg)
        /\ calls[i].messages # <<>> /\ calls[j].messages # <<>>
        /\ Cardinality(DOMAIN user_histories) = 2

\* C10: the lookup of a call inserts an empty history only for a user_id
\* without entry; for a user_id with an entry the call appends to what the
\* entry held, and no other entry changes.
C10_LookupKeepsEntry ==
    [][Len(calls') > Len(calls) =>
          LET c == calls'[Len(calls')]
              u == c.user_id
          IN  /\ DOMAIN user_histories' = DOMAIN user_histories \cup { u }
              /\ c.created = (u \notin DOMAIN user_histories)
              /\ u \in DOMAIN user_histories =>
                    user_histories'[u] = user_histories[u] \o c.messages
              /\ u \notin DOMAIN user_histories => user_histories'[u] = c.messages
              /\ \A v \in DOMAIN user_histories \ { u } :
                    user_histories'[v] = user_histories[v]]_vars

\* A call with empty input looked up a user_id whose entry was not empty.
C10_Witness ==
    \E i \in 1..Len(calls) :
        /\ ~calls[i].created
        /\ calls[i].prior # <<>>
        /\ calls[i].messages = <<>>
        /\ user_histories[calls[i].user_id] # <<>>

\* A 'requestMade' listener threw while the call announced its reply.
RequestMadeListenerThrew(c) ==
    \E k \in 1..Len(c.emitted) :
        /\ c.emitted[k].name = "requestMade"
        /\ c.emitted[k].invoked # <<>>
        /\ Throws(c.emitted[k].invoked[Len(c.emitted[k].invoked)])

\* C11 (as claimed): a call whose 'requestMade' listener threw still returns
\* the response body of its outbound call and raises no 'error'.
C11_ThrowingListenerIsIgnored ==
    \A i \in 1..Len(calls) :
        LET c == calls[i]
        IN  RequestMadeListenerThrew(c) =>
                /\ c.state = "returned"
                /\ c.value = c.response
                /\ PayloadsOf(c.emitted, "error") = <<>>

\* ---------------------------------------------------------------- getUsage

\* The response of getUsage call c carries its result as a string / as an
\* already structured object.
StringResult(c) == c.settled = "resolved" /\ c.response[1].result.type = "string"
StructuredResult(c) == c.settled = "resolved" /\ c.response[1].result.type = "object"

\* The outbound call of getUsage call c failed, or its string result cannot
\* be decoded; and the error of that failure.
UsageFailed(c) ==
    \/ c.settled = "rejected"
    \/ StringResult(c) /\ ~Parses(c.response[1].result.value.text)
UsageErrorOf(c) == IF c.settled = "rejected" THEN c.response[1] ELSE SyntaxError

\* C12: a getUsage call whose response carries the statistics R as a
\* JSON-encoded string returns what a call returns whose response carries R
\* already structured, namely the body { result: R }.
C12_StringLikeStructured ==
    \A j \in 1..Len(usage) :
        (StringResult(usage[j]) /\ usage[j].state = "returned")
            => usage[j].value =
                   << [result |-> Obj(Parse(usage[j].response[1].result.value.text))] >>

\* C13: a getUsage call that failed has emitted 'error' exactly once, with
\* the error of the failure, and resolved to null; a call that succeeded has
\* emitted nothing.
C13_UsageErrorPolicy ==
    \A j \in 1..Len(usage) :
        usage[j].state # "awaiting" =>
            IF UsageFailed(usage[j])
            THEN /\ PayloadsOf(usage[j].emitted, "error") = << UsageErrorOf(usage[j]) >>
                 /\ Len(usage[j].emitted) = 1
                 /\ usage[j].state = "null"
            ELSE usage[j].emitted = <<>>

\* --------------------------------------------------------------- constructor

\* C14: a construction with a falsy api_key has thrown "API key is required.",
\* also when the model is missing too; one with an api_key and a falsy model
\* has thrown "Model is required."; one with both has not thrown, has stored
\* both, and its history store is empty until the first makeRequest call.
C14_Construction ==
    built # "none" =>
        /\ Falsy(given.api_key) => built = "API key is required."
        /\ (~Falsy(given.api_key) /\ Falsy(given.model)) => built = "Model is required."
        /\ (~Falsy(given.api_key) /\ ~Falsy(given.model)) =>
              /\ built = "ok"
              /\ api_key = given.api_key
              /\ model = given.model
              /\ calls = <<>> => user_histories = << >>

\* Both arguments were missing, and the API-key error was thrown.
C14_Witness ==
    /\ Falsy(given.api_key)
    /\ Falsy(given.model)
    /\ built = "API key is required."

\* ------------------------------------------------------------ the store grows

\* s is a prefix of t.
IsPrefix(s, t) == Len(s) <= Len(t) /\ SubSeq(t, 1, Len(s)) = s

\* C15: every step only extends the store: no user_id leaves user_histories,
\* and each user's history before the step is a prefix of its history after.
C15_StoreOnlyGrows ==
    [][\A u \in DOMAIN user_histories :
          /\ u \in DOMAIN user_histories'
          /\ IsPrefix(user_histories[u], user_histories'[u])]_vars

\* A settled makeRequest call found a history of its user and added its
\* input messages to it.
C15_Witness ==
    /\ \E i \in 1..Len(calls) :
          /\ calls[i].prior # <<>>
          /\ calls[i].messages # <<>>
          /\ calls[i].state # "awaiting"
          /\ IsPrefix(calls[i].prior \o calls[i].messages, user_histories[calls[i].user_id])

\* ------------------------------------------------------------------ no retry

\* The number of outbound requests with this method issued for call i.
AttemptsOf(method, i) ==
    Cardinality({ k \in 1..Len(requests) :
                    requests[k].method = method /\ requests[k].call = i })

\* C16: every makeRequest call has issued exactly one POST and every getUsage
\* call exactly one GET, settled or not, failed or not; there is no other
\* outbound request.
C16_OneAttemptPerCall ==
    /\ \A i \in 1..Len(calls) : AttemptsOf("POST", i) = 1
    /\ \A j \in 1..Len(usage) : AttemptsOf("GET", j) = 1
    /\ Len(requests) = Len(calls) + Len(usage)

\* A makeRequest call and a getUsage call have both failed and settled.
C16_Witness ==
    /\ \E i \in 1..Len(calls) : calls[i].state # "awaiting" /\ Failed(calls[i])
    /\ \E j \in 1..Len(usage) : usage[j].state # "awaiting" /\ UsageFailed(usage[j])

\* ------------------------------------------------------------------ listeners

\* The notifications a step added to a call, given the call before (o) and
\* after (n) the step.
NewEntries(o, n) == SubSeq(n.emitted, Len(o.emitted) + 1, Len(n.emitted))

\* For every notification the step raised in a call: every listener that was
\* registered for the signal was invoked, and after the step the one-time
\* listeners among them are gone while the others are still registered.
NotifiedAll(o, n) ==
    \A k \in DOMAIN NewEntries(o, n) :
        LET e  == NewEntries(o, n)[k]
            ls == listeners[e.name]
        IN  /\ e.invoked = [q \in 1..Len(ls) |-> ls[q].fn]
            /\ listeners'[e.name] = SelectSeq(ls, LAMBDA l : ~l.once)
            /\ listenerCount(listeners', e.name)
                  = Len(ls) - Cardinality({ q \in 1..Len(ls) : ls[q].once })

\* C17: at every notification of a signal each registered listener of that
\* signal is invoked, whether registered with on, once or a prepend method;
\* afterwards the one-time listeners are no longer registered or counted, and
\* every other listener still is (so that it is invoked at every notification
\* until it is removed).
C17_OnceOnceOnAlways ==
    [][/\ \A i \in 1..Len(calls) : NotifiedAll(calls[i], calls'[i])
       /\ \A j \in 1..Len(usage) : NotifiedAll(usage[j], usage'[j])]_vars

\* The listeners a step's notifications invoked are the first listeners of the
\* signal's array, in the array's order, and they were invoked in the step in
\* which the call left its await.
InArrayOrder(o, n) ==
    /\ NewEntries(o, n) # <<>> => (o.state = "awaiting" /\ n.state # "awaiting")
    /\ \A k \in DOMAIN NewEntries(o, n) :
          LET e  == NewEntries(o, n)[k]
              ls == listeners[e.name]
          IN  /\ Len(e.invoked) <= Len(ls)
              /\ \A q \in 1..Len(e.invoked) : e.invoked[q] = ls[q].fn

\* The step registers a listener for name; it places the new listener after /
\* before the listeners that were registered already.
Registers(name) == Len(listeners'[name]) = Len(listeners[name]) + 1
PlacedLast(name) ==
    SubSeq(listeners'[name], 1, Len(listeners[name])) = listeners[name]
PlacedFirst(name) ==
    SubSeq(listeners'[name], 2, Len(listeners'[name])) = listeners[name]

\* C18 (as claimed): the listeners of a notification are invoked inside the
\* step that raises it, in the order of the signal's array, and that order is
\* the order of registration: every registration places the new listener
\* after the listeners registered before it.
C18_RegistrationOrder ==
    [][/\ \A i \in 1..Len(calls) : InArrayOrder(calls[i], calls'[i])
       /\ \A j \in 1..Len(usage) : InArrayOrder(usage[j], usage'[j])
       /\ \A name \in Signals : Registers(name) => PlacedLast(name)]_vars

\* C18 (amended): the listeners of a notification are invoked inside the step
\* that raises it, in the order of the signal's array; on and once place a
\* listener at the end of the array, prependListener and prependOnceListener
\* place it at the front, before listeners registered earlier.
C18_ArrayOrder ==
    [][/\ \A i \in 1..Len(calls) : InArrayOrder(calls[i], calls'[i])
       /\ \A j \in 1..Len(usage) : InArrayOrder(usage[j], usage'[j])
       /\ \A name \in Signals :
             Registers(name) =>
                 LET ls == listeners'[name]
                 IN  \/ PlacedFirst(name) /\ ls[1].prepended
                     \/ PlacedLast(name) /\ ~ls[Len(ls)].prepended]_vars

\* A notification has invoked two different listeners, the first of them a
\* prepended one that was registered after the second.
C18_Witness ==
    \E i \in 1..Len(calls) : \E k \in 1..Len(calls[i].emitted) :
        LET e  == calls[i].emitted[k]
            ls == listeners[e.name]
        IN  /\ Len(ls) = 2
            /\ ls[1].prepended /\ ~ls[2].prepended
            /\ ls[1].fn # ls[2].fn
            /\ ~ls[1].once /\ ~ls[2].once
            /\ e.invoked = << ls[1].fn, ls[2].fn >>

\* ---------------------------------------------------------------- Utils.once

\* The calls of the once wrapper in which func was executed.
Executions == { k \in 1..Len(onceLog) : onceLog[k].executed }

\* C19: over the calls of the wrapper made so far func was executed at most
\* once, in the first call, and every call that has returned has returned the
\* result of that execution.
C19_ExecutedOnce ==
    /\ Cardinality(Executions) <= 1
    /\ onceLog # <<>> => Executions = { 1 }
    /\ \A k \in 1..Len(onceLog) :
          onceLog[k].returned # <<>> => onceLog[k].returned = onceLog[1].returned

\* ------------------------------------------------------------ Utils.throttle

\* The calls of the throttle wrapper in which func was invoked.
Invocations == { k \in 1..Len(throttleLog) : throttleLog[k].executed }

\* The period of an earlier invocation is still running at call l.
InPeriod(l) ==
    \E k \in Invocations : k < l /\ throttleLog[l].at - throttleLog[k].at < Limit

\* C20: func is invoked in the first call of the wrapper; a call made while
\* the period of limit milliseconds of an earlier invocation is running does
\* not invoke it, so that two invocations are at least limit apart; a call
\* made when no period is running invokes it, in that call.
C20_OncePerPeriod ==
    \A l \in 1..Len(throttleLog) :
        /\ l = 1 => throttleLog[l].executed
        /\ InPeriod(l) => ~throttleLog[l].executed
        /\ ~InPeriod(l) => throttleLog[l].executed

\* ------------------------------------------------------------ Utils.debounce

\* The positions of the calls / of the executions of func in debounceLog.
CallsAt == { p \in 1..Len(debounceLog) : debounceLog[p].kind = "call" }
ExecsAt == { p \in 1..Len(debounceLog) : debounceLog[p].kind = "exec" }

\* q is the call that follows the call p.
NextCall(p, q) ==
    /\ p \in CallsAt /\ q \in CallsAt /\ p < q
    /\ \A r \in CallsAt : ~(p < r /\ r < q)

\* Every execution of func comes directly after the call whose arguments it
\* carries, at least Delay milliseconds after that call.
ExecutesLastCall ==
    \A p \in ExecsAt :
        /\ p > 1
        /\ debounceLog[p - 1].kind = "call"
        /\ debounceLog[p - 1].args = debounceLog[p].args
        /\ debounceLog[p].at - debounceLog[p - 1].at >= Delay

\* C21 (as claimed): func is executed only when Delay milliseconds have
\* passed without a call, with the arguments of the last call; two calls
\* less than Delay apart belong to one burst and have no execution between
\* them; two calls more than Delay apart belong to different bursts, and the
\* earlier burst has been executed, once, before the later one starts.
C21_OneExecutionPerBurst ==
    /\ ExecutesLastCall
    /\ \A p, q \in CallsAt :
          NextCall(p, q) =>
              LET between == { r \in ExecsAt : p < r /\ r < q }
                  gap     == debounceLog[q].at - debounceLog[p].at
              IN  /\ gap < Delay => between = {}
                  /\ gap > Delay => Cardinality(between) = 1

\* C21 (amended): func is executed only when at least Delay milliseconds have
\* passed since the latest call, directly after that call and with its
\* arguments; a call cancels the pending execution of the call before it, so
\* at most one execution is pending, that of the latest call; and when none
\* is pending the latest call has been executed.
C21_LatestCallExecutes ==
    /\ ExecutesLastCall
    /\ debounceTimers # {} =>
          /\ debounceLog[Len(debounceLog)].kind = "call"
          /\ debounceTimers =
                { [id   |-> DebounceCalls,
                   due  |-> debounceLog[Len(debounceLog)].at + Delay,
                   args |-> debounceLog[Len(debounceLog)].args] }
    /\ (debounceTimers = {} /\ debounceLog # <<>>) =>
          debounceLog[Len(debounceLog)].kind = "exec"

\* Two calls with different arguments less than Delay apart, then the one
\* execution, with the arguments of the second call.
C21_Witness ==
    \E p \in ExecsAt :
        /\ p >= 3
        /\ debounceLog[p - 2].kind = "call"
        /\ debounceLog[p - 1].kind = "call"
        /\ debounceLog[p - 2].args # debounceLog[p - 1].args
        /\ debounceLog[p - 1].at - debounceLog[p - 2].at < Delay
        /\ debounceLog[p].args = debounceLog[p - 1].args

\* ------------------------------------------------------ Utils.chunk, flatten

\* C22: chunk(arr, size) with size >= 1 has returned ceil(length / size)
\* chunks, each of exactly size elements except the last, which has between
\* 1 and size, and flatten of the chunks is arr.
C22_ChunkThenFlatten ==
    applied.fn = "chunk" =>
        LET n   == Len(applied.arr)
            out == applied.out
        IN  /\ Len(out) = (n + applied.size - 1) \div applied.size
            /\ \A k \in 1..Len(out) - 1 : Len(out[k]) = applied.size
            /\ out # <<>> =>
                  /\ Len(out[Len(out)]) >= 1
                  /\ Len(out[Len(out)]) <= applied.size
            /\ applied.flat = applied.arr

\* An array was split into full chunks and a shorter last one.
C22_Witness ==
    /\ applied.fn = "chunk"
    /\ Len(applied.out) >= 2
    /\ Len(applied.out[Len(applied.out)]) < applied.size
    /\ applied.flat = applied.arr

\* ---------------------------------------------------------------- Utils.ipairs

\* C23: ipairs(arr) has yielded the values of arr in ascending order, each
\* paired with its position in that order: 0 with the smallest, 1 with the
\* next, and so on.
C23_SortedPositions ==
    applied.fn = "ipairs" =>
        LET out == applied.out
        IN  /\ Len(out) = Len(applied.arr)
            /\ \A k \in 1..Len(out) - 1 : out[k].value <= out[k + 1].value
            /\ \A k \in 1..Len(out) : out[k].index = k - 1

\* --------------------------------------------------------------- Utils.groupBy

\* C24: groupBy(arr, keyFn) has returned an object whose keys are the keys of
\* the elements of arr (so no group is empty) and whose group under a key
\* holds exactly the elements with that key, in the order they have in arr.
C24_GroupsPartition ==
    applied.fn = "groupBy" =>
        /\ ~applied.out.threw
        /\ DOMAIN applied.out.groups =
              { applied.keyFn[applied.arr[i]] : i \in 1..Len(applied.arr) }
        /\ \A key \in DOMAIN applied.out.groups :
              applied.out.groups[key] =
                  SelectSeq(applied.arr, LAMBDA item : applied.keyFn[item] = key)

\* ------------------------------------------------------- overlapping calls

\* Where the input of a call stands in the history of its user, and where
\* its assistant reply stands: at the end of the history as it was announced
\* with 'requestMade' when the call completed.
InputFrom(c) == Len(c.prior) + 1
InputTo(c) == Len(c.prior) + Len(c.messages)
ReplyAt(c) == Len(PayloadsOf(c.emitted, "requestMade")[1].messages)

\* Calls i < j are the first two calls of their user, and j started while
\* the outbound call of i was awaited.
Overlapped(i, j) ==
    /\ i < j
    /\ calls[i].user_id = calls[j].user_id
    /\ { k \in CallsOf(calls[i].user_id) : k <= j } = { i, j }
    /\ calls[j].overlap

\* C25: when a second call of a user overlaps the first, its input is
\* appended directly behind the first call's input, where it stays; the
\* reply of the first call, when it arrives, stands behind the second call's
\* input, and each reply stands where the history ended when its call
\* completed, so the replies stand in completion order.
C25_AppendsInterleave ==
    \A i, j \in 1..Len(calls) :
        Overlapped(i, j) =>
            LET h == user_histories[calls[i].user_id]
            IN  /\ calls[j].prior = calls[i].prior \o calls[i].messages
                /\ IsPrefix(calls[j].prior \o calls[j].messages, h)
                /\ \A k \in { i, j } :
                      (Succeeded(calls[k]) /\ calls[k].state # "awaiting") =>
                          /\ ReplyAt(calls[k]) > InputTo(calls[j])
                          /\ ReplyAt(calls[k]) <= Len(h)
                          /\ h[ReplyAt(calls[k])] = AssistantMessage(calls[k].response[1])

\* The second call started before the first completed and completed first:
\* the history reads input 1, input 2, reply 2, reply 1.
C25_Witness ==
    \E i, j \in 1..Len(calls) :
        /\ Overlapped(i, j)
        /\ calls[i].messages # <<>> /\ calls[j].messages # <<>>
        /\ Succeeded(calls[i]) /\ calls[i].state # "awaiting"
        /\ Succeeded(calls[j]) /\ calls[j].state # "awaiting"
        /\ ReplyAt(calls[j]) < ReplyAt(calls[i])
        /\ user_histories[calls[i].user_id] =
              calls[i].prior \o calls[i].messages \o calls[j].messages
              \o << AssistantMessage(calls[j].response[1]),
                    AssistantMessage(calls[i].response[1]) >>

\* C26: once every call of a user has completed, overlapping or not, the
\* history has as many elements as the calls supplied messages plus one per
\* call that succeeded, and the input of each call stands in it unbroken and
\* in the order supplied.
C26_NoAppendLost ==
    \A u \in DOMAIN user_histories :
        (\A i \in CallsOf(u) : calls[i].state # "awaiting") =>
            /\ Len(user_histories[u]) = InputCount(u, Len(calls)) + SuccessCount(u)
            /\ \A i \in CallsOf(u) :
                  /\ InputTo(calls[i]) <= Len(user_histories[u])
                  /\ SubSeq(user_histories[u], InputFrom(calls[i]), InputTo(calls[i]))
                        = calls[i].messages

\* Two overlapping calls of a user have completed, both with a reply, one of
\* them with a two-message input.
C26_Witness ==
    \E i, j \in 1..Len(calls) :
        /\ Overlapped(i, j)
        /\ calls[i].state # "awaiting" /\ calls[j].state # "awaiting"
        /\ Succeeded(calls[i]) /\ Succeeded(calls[j])
        /\ Len(calls[i].messages) = 2 /\ calls[j].messages # <<>>

\* ------------------------------------------------------ empty-string user_id

\* The identifiers crypto.randomUUID has produced so far.
Generated == { randomUUID(n) : n \in 1..uuids }

\* C27: no history is stored under the empty string; a call that was given
\* "" as user_id, like one that was given none, runs under a generated
\* identifier that had no history before, and its request carries exactly the
\* call's own input.
C27_EmptyIdIsAbsent ==
    /\ "" \notin DOMAIN user_histories
    /\ \A i \in 1..Len(calls) :
          calls[i].arg \in { "", Undefined } =>
              /\ calls[i].user_id \in Generated
              /\ calls[i].created
              /\ calls[i].prior = <<>>
              /\ calls[i].sent.messages = calls[i].messages

\* Two calls were given the empty string and got different identifiers.
C27_Witness ==
    \E i, j \in 1..Len(calls) :
        /\ calls[i].arg = "" /\ calls[j].arg = ""
        /\ calls[i].user_id # calls[j].user_id
        /\ calls[i].messages # <<>>
        /\ calls[i].state # "awaiting"

\* ----------------------------------------------------------- other histories

\* The users whose entry of the store a step creates or changes.
Touched ==
    { u \in DOMAIN user_histories' :
        u \notin DOMAIN user_histories \/ user_histories'[u] # user_histories[u] }

\* The user_id of the call that takes the step: the call that starts, or the
\* call whose outbound call settles.
Acting ==
    IF Len(calls') > Len(calls)
    THEN { calls'[Len(calls')].user_id }
    ELSE { calls[i].user_id : i \in { k \in 1..Len(calls) : calls'[k] # calls[k] } }

\* C28: a step of a makeRequest call creates or changes no entry of the store
\* but that of the call's own user_id, whether the call succeeds or fails,
\* and removes none.
C28_OtherHistoriesKept ==
    [][/\ Touched \subseteq Acting
       /\ DOMAIN user_histories \subseteq DOMAIN user_histories']_vars

\* There are histories of two users, and the later call, on the second user,
\* has completed with a failure after the first user's call succeeded.
C28_Witness ==
    \E i, j \in 1..Len(calls) :
        /\ i < j
        /\ calls[i].user_id # calls[j].user_id
        /\ Succeeded(calls[i]) /\ calls[i].state # "awaiting"
        /\ Failed(calls[j]) /\ calls[j].state # "awaiting"
        /\ calls[j].messages # <<>>
        /\ user_histories[calls[i].user_id] # <<>>
        /\ user_histories[calls[j].user_id] = calls[j].messages

====
